---- MODULE Spec2Model ----
(***************************************************************************)
(* Model of the steadfast consignment scraper: request validation and the  *)
(* last-request cache, the recursive pagination walker, the row parser and *)
(* the date-range filter (src/steadfast/steadfast.py, src/steadfast/dt.py).*)
(*                                                                         *)
(* Representation.                                                         *)
(*  - A Python value that may be None / missing is a sequence of length    *)
(*    0 or 1 (<<>> is "no value").                                         *)
(*  - A datetime is [days |-> proleptic ordinal, secs |-> second of day];  *)
(*    comparison is lexicographic, as Python compares datetimes.           *)
(*    Microseconds (only datetime.now() has them) are left out.            *)
(*  - Text scraped from a cell is a sequence of tokens; the empty string   *)
(*    is <<>> and str.replace(label, '') drops every token equal to label. *)
(***************************************************************************)
EXTENDS Integers, Sequences, FiniteSets, TLC

VARIABLES
    cache,          \* contents of cache.pkl: <<>> (no file) or <<descriptor>>
    lastReq,        \* arguments of the latest validate_request call (<<>> before any)
    loaded,         \* what load_cache() returned in the latest call
    result,         \* outcome of the latest validate_request call
    cacheOps,       \* cache-file operations of the latest call, in order
    lastSuccess,    \* descriptor returned by the latest successful call
    pc,             \* position of main()
    upstream,       \* the portal's listing: a finite sequence of pages (empty beyond)
    validated_data, \* main's validated_data: <<>> or <<descriptor>>
    page,           \* page argument of the innermost scrap_data frame
    frames,         \* page_data held by the suspended scrap_data frames
    ret,            \* value being returned through the scrap_data frames
    fetchLog,       \* requests.get calls made so far: [page, outcome]
    scraped_data,   \* main's scraped_data: <<>> or <<list>>
    filtered_data,  \* main's filtered_data: <<>> or <<list>>
    error,          \* exception that ended main ("" if none)
    html,           \* markup handed to parsed_data_from_html (parser runs)
    parsed          \* its outcome: <<>> or <<result>>

vars == <<cache, lastReq, loaded, result, cacheOps, lastSuccess, pc, upstream,
          validated_data, page, frames, ret, fetchLog, scraped_data,
          filtered_data, error, html, parsed>>

validateVars == <<cache, lastReq, loaded, result, cacheOps, lastSuccess>>
walkVars == <<page, frames, ret, fetchLog, scraped_data, filtered_data>>
parseVars == <<html, parsed>>

(***************************************************************************)
(* Bounds of the model.                                                    *)
(***************************************************************************)
MaxRows == 2
MaxPages == 2

(***************************************************************************)
(* Results of calls that may raise.                                        *)
(***************************************************************************)
Ok(v) == [ok |-> TRUE, val |-> <<v>>, err |-> ""]
Raise(e) == [ok |-> FALSE, val |-> <<>>, err |-> e]

None == "<None>"
Truthy(s) == s # None /\ s # ""

(***************************************************************************)
(* Calendar arithmetic of the datetime module.                             *)
(***************************************************************************)
DaysPerWeek == 7

IsLeap(y) == (y % 4 = 0) /\ ((y % 100 # 0) \/ (y % 400 = 0))

DaysInMonth(y, m) ==
    IF m = 2 THEN (IF IsLeap(y) THEN 29 ELSE 28)
    ELSE IF m \in {4, 6, 9, 11} THEN 30 ELSE 31

RECURSIVE DaysBeforeMonth(_, _)
DaysBeforeMonth(y, m) ==
    IF m <= 1 THEN 0 ELSE DaysBeforeMonth(y, m - 1) + DaysInMonth(y, m - 1)

DaysBeforeYear(y) ==
    (y - 1) * 365 + ((y - 1) \div 4) - ((y - 1) \div 100) + ((y - 1) \div 400)

Ordinal(y, m, d) == DaysBeforeYear(y) + DaysBeforeMonth(y, m) + d

DT(y, m, d, hh, mm, ss) ==
    [days |-> Ordinal(y, m, d),
     secs |-> hh * 3600 + mm * 60 + ss]

DtLt(a, b) == a.days < b.days \/ (a.days = b.days /\ a.secs < b.secs)
DtLe(a, b) == a.days < b.days \/ (a.days = b.days /\ a.secs <= b.secs)
DtGe(a, b) == DtLe(b, a)

MinusDays(dt, n) == [dt EXCEPT !.days = dt.days - n]

(***************************************************************************)
(* Date text typed at the prompt.  kind "none"/"empty" is a missing value; *)
(* kind "text" is three numeric fields joined by sep.                      *)
(***************************************************************************)
DateText(sep, y, m, d) == [kind |-> "text", sep |-> sep, y |-> y, m |-> m, d |-> d]
NoDate == [kind |-> "none", sep |-> "", y |-> 0, m |-> 0, d |-> 0]
EmptyDate == [kind |-> "empty", sep |-> "", y |-> 0, m |-> 0, d |-> 0]

DateTruthy(t) == t.kind = "text"

\* datetime.datetime.strptime(text, DATE_FORMAT), DATE_FORMAT = "%Y-%m-%d"
StrptimeDate(t) ==
    IF /\ t.sep = "-"
       /\ t.y \in 1..9999
       /\ t.m \in 1..12
       /\ t.d >= 1
       /\ t.d <= DaysInMonth(t.y, t.m)
    THEN Ok(DT(t.y, t.m, t.d, 0, 0, 0))
    ELSE Raise("ValueError")

(***************************************************************************)
(* dt.py: the Status enumeration, member name |-> value.                   *)
(***************************************************************************)
Status ==
    [ALL |-> "All",
     PENDING |-> "Pending",
     APPROVAL_PENDING |-> "Approval Pending",
     DELEVERED |-> "Delivered",
     PARTLY_DELIVERED |-> "Partly Delivered",
     CANCELLED |-> "Cancelled",
     IN_REVIEW |-> "In Review",
     PICK_N_DROP |-> "Pick-n-Drop"]

\* Status(value): lookup of a member by its value
StatusLookup(value) ==
    IF \E m \in DOMAIN Status : Status[m] = value
    THEN Ok(CHOOSE m \in DOMAIN Status : Status[m] = value)
    ELSE Raise("ValueError")

(***************************************************************************)
(* Request validation.                                                     *)
(***************************************************************************)
load_cache(file) == file

\* a cache writer that persists the default category instead of the validated one
update_cache_default_status(validated) == <<[validated EXCEPT !.status = "ALL"]>>

update_cache(validated) == <<validated>>

\* a credential check that prefers the cached credential to the supplied one
validate_cookie_cache_first(cookie, cached) ==
    IF cached # <<>> /\ cached[1].cookie # None THEN Ok(cached[1].cookie)
    ELSE IF Truthy(cookie) THEN Ok(cookie)
    ELSE Raise("ValidationError")

validate_cookie(cookie, cached) ==
    IF Truthy(cookie) THEN Ok(cookie)
    ELSE IF cached # <<>> /\ cached[1].cookie # None THEN Ok(cached[1].cookie)
    ELSE Raise("ValidationError")

validate_start_date(start_date, now) ==
    IF ~DateTruthy(start_date) THEN Ok(now)
    ELSE LET p == StrptimeDate(start_date) IN
         IF p.ok THEN p ELSE Raise("ValidationError")

validate_end_date(end_date, start) ==
    IF ~DateTruthy(end_date) THEN Ok(MinusDays(start, DaysPerWeek))
    ELSE LET p == StrptimeDate(end_date) IN
         IF p.ok THEN p ELSE Raise("ValidationError")

\* a status check that falls back to the all-statuses category
validate_status_lenient(status) ==
    IF ~Truthy(status) THEN Ok("ALL")
    ELSE LET p == StatusLookup(status) IN
         IF p.ok THEN p ELSE Ok("ALL")

validate_status(status) ==
    IF ~Truthy(status) THEN Ok("ALL")
    ELSE LET p == StatusLookup(status) IN
         IF p.ok THEN p ELSE Raise("ValidationError")

\* The whole call: the result, the cache file afterwards, and the file
\* operations performed, in order.
validate_request(req, file, now) ==
    LET cached == load_cache(file)
        failed(e) == [res |-> Raise(e), file |-> file, ops |-> <<"load">>]
        c == validate_cookie(req.cookie, cached)
    IN
    IF ~c.ok THEN failed(c.err) ELSE
    LET s == validate_start_date(req.start_date, now) IN
    IF ~s.ok THEN failed(s.err) ELSE
    LET e == validate_end_date(req.end_date, s.val[1]) IN
    IF ~e.ok THEN failed(e.err) ELSE
    LET st == validate_status(req.status) IN
    IF ~st.ok THEN failed(st.err) ELSE
    LET validated == [cookie |-> c.val[1], start_date |-> s.val[1],
                      end_date |-> e.val[1], status |-> st.val[1]]
    IN [res |-> Ok(validated), file |-> update_cache(validated),
        ops |-> <<"load", "dump">>]

(***************************************************************************)
(* Markup.  A listing page is the sequence of its '.tbody .tbody-row'      *)
(* elements.  A row holds, per selector, the element found by select_one   *)
(* (present) and its text; cell_7a also has its href attribute.            *)
(***************************************************************************)
MonthNames ==
    <<"January", "February", "March", "April", "May", "June", "July",
      "August", "September", "October", "November", "December">>

MonthNumber(name) == CHOOSE i \in 1..Len(MonthNames) : MonthNames[i] = name

\* text of a timestamp "<B> <d>, <Y> <I>:<M> <p>"
RawTs(B, d, Y, I, M, p) == [B |-> B, d |-> d, Y |-> Y, I |-> I, M |-> M, p |-> p]

Replace(text, label) == SelectSeq(text, LAMBDA t : t # label)

\* element.get_text(strip=True) on the result of select_one
GetText(cell) == IF cell.present THEN Ok(cell.text) ELSE Raise("AttributeError")

\* datetime.datetime.strptime(raw_datetime, "%B %d, %Y %I:%M %p")
formatted_datetime(raw_datetime) ==
    IF /\ \E i \in 1..Len(MonthNames) : MonthNames[i] = raw_datetime.B
       /\ raw_datetime.Y \in 1..9999
       /\ raw_datetime.d >= 1
       /\ raw_datetime.d <= DaysInMonth(raw_datetime.Y, MonthNumber(raw_datetime.B))
       /\ raw_datetime.I \in 1..12
       /\ raw_datetime.M \in 0..59
       /\ raw_datetime.p \in {"AM", "PM"}
    THEN Ok(DT(raw_datetime.Y, MonthNumber(raw_datetime.B), raw_datetime.d,
               IF raw_datetime.p = "AM"
               THEN (IF raw_datetime.I = 12 THEN 0 ELSE raw_datetime.I)
               ELSE (IF raw_datetime.I = 12 THEN 12 ELSE raw_datetime.I + 12),
               raw_datetime.M, 0))
    ELSE Raise("ValueError")

\* no try/except here: a row without '.cell_1' raises AttributeError
parse_datetime(row) ==
    IF row.cell_1.present THEN Ok(row.cell_1.ts) ELSE Raise("AttributeError")

\* Each optional parser returns "" when select_one found nothing.
parse_steadfast_id(row) ==
    LET t == GetText(row.cell_2a) IN
    IF t.ok THEN t ELSE IF t.err = "AttributeError" THEN Ok(<<>>) ELSE t

\* a customer-name parser without its except clause
parse_customer_name_unguarded(row) ==
    LET t == GetText(row.cell_3) IN
    IF t.ok THEN Ok(Replace(t.val[1], "Name")) ELSE t

parse_customer_name(row) ==
    LET t == GetText(row.cell_3) IN
    IF t.ok THEN Ok(Replace(t.val[1], "Name"))
    ELSE IF t.err = "AttributeError" THEN Ok(<<>>) ELSE t

parse_payment(row) ==
    LET t == GetText(row.cell_4) IN
    IF t.ok THEN Ok(Replace(t.val[1], "Payment"))
    ELSE IF t.err = "AttributeError" THEN Ok(<<>>) ELSE t

parse_charge(row) ==
    LET t == GetText(row.cell_5) IN
    IF t.ok THEN Ok(Replace(t.val[1], "Charge"))
    ELSE IF t.err = "AttributeError" THEN Ok(<<>>) ELSE t

parse_status(row) ==
    LET t == GetText(row.cell_6label) IN
    IF t.ok THEN t ELSE IF t.err = "AttributeError" THEN Ok(<<>>) ELSE t

\* element.get('href', '')
parse_detail(row) ==
    IF row.cell_7a.present
    THEN Ok(IF row.cell_7a.hasHref THEN row.cell_7a.href ELSE <<>>)
    ELSE Ok(<<>>)

\* The body of the for loop: the record of one row, or the exception raised,
\* in the order the calls are made.
ParseRow(row) ==
    LET raw == parse_datetime(row) IN
    IF ~raw.ok THEN Raise(raw.err) ELSE
    LET steadfast_id == parse_steadfast_id(row) IN
    IF ~steadfast_id.ok THEN Raise(steadfast_id.err) ELSE
    LET customer_name == parse_customer_name(row) IN
    IF ~customer_name.ok THEN Raise(customer_name.err) ELSE
    LET payment == parse_payment(row) IN
    IF ~payment.ok THEN Raise(payment.err) ELSE
    LET charge == parse_charge(row) IN
    IF ~charge.ok THEN Raise(charge.err) ELSE
    LET status == parse_status(row) IN
    IF ~status.ok THEN Raise(status.err) ELSE
    LET detail == parse_detail(row) IN
    IF ~detail.ok THEN Raise(detail.err) ELSE
    LET date == formatted_datetime(raw.val[1]) IN
    IF ~date.ok THEN Raise(date.err) ELSE
    Ok([Date |-> date.val[1],
        Id |-> steadfast_id.val[1],
        CustomerName |-> customer_name.val[1],
        Payment |-> payment.val[1],
        Charge |-> charge.val[1],
        Status |-> status.val[1],      \* parse_status never returns a tuple
        Details |-> detail.val[1]])

RECURSIVE ParseRows(_, _, _)
ParseRows(table_rows, i, parsed_data) ==
    IF i > Len(table_rows) THEN Ok(parsed_data)
    ELSE LET r == ParseRow(table_rows[i]) IN
         IF ~r.ok THEN Raise(r.err)
         ELSE ParseRows(table_rows, i + 1, Append(parsed_data, r.val[1]))

RECURSIVE ParseRowsSkipping(_, _, _)
ParseRowsSkipping(table_rows, i, parsed_data) ==
    IF i > Len(table_rows) THEN Ok(parsed_data)
    ELSE LET r == ParseRow(table_rows[i]) IN
         ParseRowsSkipping(table_rows, i + 1,
             IF r.ok THEN Append(parsed_data, r.val[1]) ELSE parsed_data)

\* a page parser that drops the rows it cannot parse
parsed_data_from_html_skipping(html_content) ==
    ParseRowsSkipping(html_content, 1, <<>>)

parsed_data_from_html(html_content) == ParseRows(html_content, 1, <<>>)

(***************************************************************************)
(* The range filter.                                                       *)
(***************************************************************************)
RECURSIVE FilterLoop(_, _, _, _)
FilterLoop(scraped, validated, i, filtered) ==
    IF i > Len(scraped) THEN filtered
    ELSE FilterLoop(scraped, validated, i + 1,
            IF /\ DtLe(scraped[i].Date, validated.start_date)
               /\ DtGe(scraped[i].Date, validated.end_date)
            THEN Append(filtered, scraped[i])
            ELSE filtered)

RECURSIVE FilterLoopExclusive(_, _, _, _)
FilterLoopExclusive(scraped, validated, i, filtered) ==
    IF i > Len(scraped) THEN filtered
    ELSE FilterLoopExclusive(scraped, validated, i + 1,
            IF /\ DtLe(scraped[i].Date, validated.start_date)
               /\ DtLt(validated.end_date, scraped[i].Date)
            THEN Append(filtered, scraped[i])
            ELSE filtered)

\* a filter whose lower bound is exclusive
filter_scraped_data_exclusive(scraped, validated) ==
    FilterLoopExclusive(scraped, validated, 1, <<>>)

filter_scraped_data(scraped, validated) == FilterLoop(scraped, validated, 1, <<>>)

(***************************************************************************)
(* The pagination walker.                                                  *)
(***************************************************************************)
\* The page the portal holds under a page number: nothing beyond the listing.
UpstreamPage(n) == IF n <= Len(upstream) THEN upstream[n] ELSE <<>>

\* Body of the response to requests.get, by outcome of the request.  A
\* non-success response is an error document, which has no table rows;
\* nothing in scrap_data looks at the response's status.
ResponseText(n, outcome) == IF outcome = "ok" THEN UpstreamPage(n) ELSE <<>>

\* requests.get(..., timeout=10): raises on a timeout, returns the response
\* otherwise
requests_get(n, outcome) ==
    IF outcome = "timeout" THEN Raise("Timeout") ELSE Ok(ResponseText(n, outcome))

\* a walker that also stops on a last record equal to end_date
scrap_data_frame_stop_on_equal(validated, response) ==
    IF ~response.ok THEN [do |-> "raise", err |-> response.err, data |-> <<>>] ELSE
    LET page_data == parsed_data_from_html(response.val[1]) IN
    IF ~page_data.ok THEN [do |-> "raise", err |-> page_data.err, data |-> <<>>]
    ELSE IF Len(page_data.val[1]) = 0
    THEN [do |-> "return", err |-> "", data |-> <<>>]
    ELSE IF DtLe(page_data.val[1][Len(page_data.val[1])].Date, validated.end_date)
    THEN [do |-> "return", err |-> "", data |-> page_data.val[1]]
    ELSE [do |-> "recurse", err |-> "", data |-> page_data.val[1]]

\* a walker that returns nothing for the page it stops on
scrap_data_frame_drop_last(validated, response) ==
    IF ~response.ok THEN [do |-> "raise", err |-> response.err, data |-> <<>>] ELSE
    LET page_data == parsed_data_from_html(response.val[1]) IN
    IF ~page_data.ok THEN [do |-> "raise", err |-> page_data.err, data |-> <<>>]
    ELSE IF Len(page_data.val[1]) = 0
    THEN [do |-> "return", err |-> "", data |-> <<>>]
    ELSE IF DtLt(page_data.val[1][Len(page_data.val[1])].Date, validated.end_date)
    THEN [do |-> "return", err |-> "", data |-> <<>>]
    ELSE [do |-> "recurse", err |-> "", data |-> page_data.val[1]]

\* One frame of scrap_data, from the response to its decision: raise, return
\* data, or keep data and call scrap_data(page + 1).
scrap_data_frame(validated, response) ==
    IF ~response.ok THEN [do |-> "raise", err |-> response.err, data |-> <<>>] ELSE
    LET page_data == parsed_data_from_html(response.val[1]) IN
    IF ~page_data.ok THEN [do |-> "raise", err |-> page_data.err, data |-> <<>>]
    ELSE IF Len(page_data.val[1]) = 0
    THEN [do |-> "return", err |-> "", data |-> <<>>]
    ELSE IF DtLt(page_data.val[1][Len(page_data.val[1])].Date, validated.end_date)
    THEN [do |-> "return", err |-> "", data |-> page_data.val[1]]
    ELSE [do |-> "recurse", err |-> "", data |-> page_data.val[1]]

(***************************************************************************)
(* Inputs of the validation runs.                                          *)
(***************************************************************************)
Cookies == {None, "", "ck1", "ck2"}
StartTexts == {EmptyDate, DateText("-", 2024, 3, 10), DateText("-", 2024, 2, 30)}
EndTexts == {NoDate, DateText("-", 2024, 3, 1), DateText("/", 1, 3, 2024)}
StatusTexts == {None, "", "Delivered", "all", "DELEVERED"}
NowSet == {DT(2024, 3, 6, 9, 30, 17)}

Requests ==
    [cookie : Cookies, start_date : StartTexts, end_date : EndTexts,
     status : StatusTexts]

\* The effect of one validate_request call on the state.
DoValidate(req, now) ==
    LET r == validate_request(req, cache, now) IN
    /\ lastReq' = <<req>>
    /\ loaded' = load_cache(cache)
    /\ result' = <<r.res>>
    /\ cacheOps' = r.ops
    /\ cache' = r.file
    /\ lastSuccess' = IF r.res.ok THEN r.res.val ELSE lastSuccess

\* One invocation of validate_request after another, sharing cache.pkl.
ValidateCall ==
    \E req \in Requests, now \in NowSet :
        /\ pc = "input"
        /\ DoValidate(req, now)
        /\ UNCHANGED <<pc, upstream, validated_data, error>>
        /\ UNCHANGED walkVars
        /\ UNCHANGED parseVars

InitCommon ==
    /\ cache = <<>>
    /\ lastReq = <<>>
    /\ loaded = <<>>
    /\ result = <<>>
    /\ cacheOps = <<>>
    /\ lastSuccess = <<>>
    /\ validated_data = <<>>
    /\ page = 1
    /\ frames = <<>>
    /\ ret = <<>>
    /\ fetchLog = <<>>
    /\ scraped_data = <<>>
    /\ filtered_data = <<>>
    /\ error = ""
    /\ parsed = <<>>

InitValidate ==
    /\ InitCommon
    /\ pc = "input"
    /\ upstream = <<>>
    /\ html = <<>>

NextValidate == ValidateCall

SpecValidate == InitValidate /\ [][NextValidate]_vars

(***************************************************************************)
(* main(): validate, walk the pages, filter.  The listing is fixed for a   *)
(* run; the outcome of each request is chosen when the request is made.    *)
(***************************************************************************)
Present(text) == [present |-> TRUE, text |-> text]
Missing == [present |-> FALSE, text |-> <<>>]

\* a row with its seven cells, as the portal renders it
FullRow(ts) ==
    [cell_1 |-> [present |-> TRUE, ts |-> ts],
     cell_2a |-> Present(<<"SF1001">>),
     cell_3 |-> Present(<<"Name", "Rahim">>),
     cell_4 |-> Present(<<"Payment", "500">>),
     cell_5 |-> Present(<<"Charge", "60">>),
     cell_6label |-> Present(<<"Delivered">>),
     cell_7a |-> [present |-> TRUE, hasHref |-> TRUE, href |-> <<"/c/1001">>]]

PagesOver(rows) == UNION {[1..k -> rows] : k \in 0..MaxRows}
ListingsOver(rows) == UNION {[1..n -> PagesOver(rows)] : n \in 0..MaxPages}

TsA == RawTs("March", 5, 2024, 12, 0, "PM")
TsB == RawTs("March", 1, 2024, 12, 0, "AM")
TsBad == RawTs("March", 5, 2024, 14, 30, "")

\* listings of well-formed rows, and listings in which rows may be malformed
WellFormedRows == {FullRow(ts) : ts \in {TsA, TsB}}
MixedRows == {FullRow(ts) : ts \in {TsA, TsBad}}

Request(cookie, start_date, end_date, status) ==
    [cookie |-> cookie, start_date |-> start_date, end_date |-> end_date,
     status |-> status]

MainRequests ==
    {Request("ck1", DateText("-", 2024, 3, 10), DateText("-", 2024, 3, 1), ""),
     Request("ck1", DateText("-", 2024, 3, 10), DateText("-", 2024, 3, 5), ""),
     Request("ck1", DateText("-", 2024, 3, 1), EmptyDate, "Delivered"),
     Request("", DateText("-", 2024, 3, 10), EmptyDate, "")}

NetOutcomes == {"ok", "http_error", "timeout"}

\* main, line 45
MainValidate(requests) ==
    \E req \in requests, now \in NowSet :
        LET r == validate_request(req, cache, now) IN
        /\ pc = "input"
        /\ DoValidate(req, now)
        /\ validated_data' = r.res.val
        /\ pc' = IF r.res.ok THEN "scrap" ELSE "failed"
        /\ error' = IF r.res.ok THEN error ELSE r.res.err
        /\ UNCHANGED upstream
        /\ UNCHANGED walkVars
        /\ UNCHANGED parseVars

\* scrap_data(validated_data, page): one frame, from its request to its
\* return, its recursive call or its exception
ScrapStep(outcomes) ==
    \E outcome \in outcomes :
        LET response == requests_get(page, outcome)
            f == scrap_data_frame(validated_data[1], response)
        IN
        /\ pc = "scrap"
        /\ fetchLog' = Append(fetchLog,
                              [page |-> page, outcome |-> outcome,
                               body |-> IF response.ok THEN response.val[1] ELSE <<>>])
        /\ pc' = IF f.do = "raise" THEN "failed"
                 ELSE IF f.do = "return" THEN "return" ELSE "scrap"
        /\ error' = IF f.do = "raise" THEN f.err ELSE error
        /\ ret' = IF f.do = "return" THEN f.data ELSE ret
        /\ frames' = IF f.do = "recurse" THEN Append(frames, f.data)
                     ELSE IF f.do = "raise" THEN <<>> ELSE frames
        /\ page' = IF f.do = "recurse" THEN page + 1 ELSE page
        /\ UNCHANGED <<upstream, validated_data, scraped_data, filtered_data>>
        /\ UNCHANGED validateVars
        /\ UNCHANGED parseVars

\* line 167: page_data + <value returned by the inner call>
ScrapReturn ==
    /\ pc = "return"
    /\ frames # <<>>
    /\ ret' = frames[Len(frames)] \o ret
    /\ frames' = SubSeq(frames, 1, Len(frames) - 1)
    /\ UNCHANGED <<pc, upstream, validated_data, page, fetchLog, scraped_data,
                   filtered_data, error>>
    /\ UNCHANGED validateVars
    /\ UNCHANGED parseVars

\* main, line 46: the outermost frame returns
MainScraped ==
    /\ pc = "return"
    /\ frames = <<>>
    /\ scraped_data' = <<ret>>
    /\ pc' = "filter"
    /\ UNCHANGED <<upstream, validated_data, page, frames, ret, fetchLog,
                   filtered_data, error>>
    /\ UNCHANGED validateVars
    /\ UNCHANGED parseVars

\* main, line 47
MainFilter ==
    /\ pc = "filter"
    /\ filtered_data' = <<filter_scraped_data(scraped_data[1], validated_data[1])>>
    /\ pc' = "done"
    /\ UNCHANGED <<upstream, validated_data, page, frames, ret, fetchLog,
                   scraped_data, error>>
    /\ UNCHANGED validateVars
    /\ UNCHANGED parseVars

Init ==
    /\ InitCommon
    /\ pc = "input"
    /\ upstream \in ListingsOver(WellFormedRows) \cup ListingsOver(MixedRows)
    /\ html = <<>>

Next ==
    \/ MainValidate(MainRequests)
    \/ ScrapStep(NetOutcomes)
    \/ ScrapReturn
    \/ MainScraped
    \/ MainFilter

Spec == Init /\ [][Next]_vars

(***************************************************************************)
(* The end-to-end scenario: window 2024-03-10 back to 2024-03-01, page 1   *)
(* with 5 records from 2024-03-12 down to 2024-03-05, page 2 with 3        *)
(* records from 2024-03-04 down to 2024-02-20, newest first, every request *)
(* answered.                                                               *)
(***************************************************************************)
ScenarioRequest ==
    Request("ck1", DateText("-", 2024, 3, 10), DateText("-", 2024, 3, 1), "All")

ScenarioTimes == {<<12, 0, "AM">>, <<11, 59, "PM">>}

Stamp(month, d, t) == RawTs(month, d, 2024, t[1], t[2], t[3])

StampsOn(month, days) ==
    {Stamp(month, d, t) : d \in days, t \in ScenarioTimes}

NewestFirst(stamps) ==
    \A i \in 1..(Len(stamps) - 1) :
        DtGe(formatted_datetime(stamps[i]).val[1],
             formatted_datetime(stamps[i + 1]).val[1])

ScenarioPage1 ==
    {p \in [1..5 -> StampsOn("March", {12, 11, 10, 9, 5})] :
        /\ p[1].d = 12
        /\ p[2].d = 11
        /\ p[3].d = 10
        /\ p[5].d = 5
        /\ NewestFirst(p)}

ScenarioPage2 ==
    {p \in [1..3 -> StampsOn("March", {4, 1}) \cup StampsOn("February", {20})] :
        /\ p[1].B = "March" /\ p[1].d = 4
        /\ p[2].B = "March" /\ p[2].d = 1
        /\ p[3].B = "February" /\ p[3].d = 20}

RowsOf(stamps) == [i \in 1..Len(stamps) |-> FullRow(stamps[i])]

InitE2E ==
    /\ InitCommon
    /\ pc = "input"
    /\ \E p1 \in ScenarioPage1, p2 \in ScenarioPage2 :
           upstream = <<RowsOf(p1), RowsOf(p2)>>
    /\ html = <<>>

NextE2E ==
    \/ MainValidate({ScenarioRequest})
    \/ ScrapStep({"ok"})
    \/ ScrapReturn
    \/ MainScraped
    \/ MainFilter

SpecE2E == InitE2E /\ [][NextE2E]_vars

(***************************************************************************)
(* The parser on its own: one page of markup, rows with any one optional   *)
(* element missing (or all of them), timestamps well-formed or not.        *)
(***************************************************************************)
OptionalCells == {"cell_2a", "cell_3", "cell_4", "cell_5", "cell_6label", "cell_7a"}

RowWithout(ts, gone) ==
    LET full == FullRow(ts) IN
    [cell_1 |-> full.cell_1,
     cell_2a |-> IF "cell_2a" \in gone THEN Missing ELSE full.cell_2a,
     cell_3 |-> IF "cell_3" \in gone THEN Missing ELSE full.cell_3,
     cell_4 |-> IF "cell_4" \in gone THEN Missing ELSE full.cell_4,
     cell_5 |-> IF "cell_5" \in gone THEN Missing ELSE full.cell_5,
     cell_6label |-> IF "cell_6label" \in gone THEN Missing ELSE full.cell_6label,
     cell_7a |-> IF "cell_7a" \in gone
                 THEN [present |-> FALSE, hasHref |-> FALSE, href |-> <<>>]
                 ELSE IF "href" \in gone
                 THEN [present |-> TRUE, hasHref |-> FALSE, href |-> <<>>]
                 ELSE full.cell_7a]

GoneSets == {{}, OptionalCells, {"href"}} \cup {{c} : c \in OptionalCells}

TsAbbrev == RawTs("Mar", 5, 2024, 9, 30, "AM")

ParseRowSet == {RowWithout(ts, gone) : ts \in {TsA, TsBad, TsAbbrev}, gone \in GoneSets}

ParsePage ==
    /\ pc = "parse"
    /\ parsed' = <<parsed_data_from_html(html)>>
    /\ pc' = "parsed"
    /\ UNCHANGED <<upstream, validated_data, error, html>>
    /\ UNCHANGED validateVars
    /\ UNCHANGED walkVars

InitParse ==
    /\ InitCommon
    /\ pc = "parse"
    /\ upstream = <<>>
    /\ html \in PagesOver(ParseRowSet)

NextParse == ParsePage

SpecParse == InitParse /\ [][NextParse]_vars

(***************************************************************************)
(* Claims about the walker, the parser and the filter.                     *)
(***************************************************************************)
RECURSIVE Flatten(_)
Flatten(lists) ==
    IF lists = <<>> THEN <<>> ELSE Head(lists) \o Flatten(Tail(lists))

\* the timestamp format "Month Day, Year Hour:Minute AM/PM"
MatchesFormat(ts) ==
    /\ \E i \in 1..12 : MonthNames[i] = ts.B
    /\ ts.Y \in 1..9999
    /\ ts.d \in 1..31
    /\ \A i \in 1..12 : MonthNames[i] = ts.B => ts.d <= DaysInMonth(ts.Y, i)
    /\ ts.I \in 1..12
    /\ ts.M \in 0..59
    /\ ts.p \in {"AM", "PM"}

PageWellFormed(rows) ==
    \A i \in 1..Len(rows) : rows[i].cell_1.present /\ MatchesFormat(rows[i].cell_1.ts)

\* the records of a page of well-formed rows
RecordsOf(rows) == parsed_data_from_html(rows).val[1]

InWindow(r, validated) ==
    /\ (validated.end_date.days < r.Date.days
        \/ (validated.end_date.days = r.Date.days
            /\ validated.end_date.secs <= r.Date.secs))
    /\ (r.Date.days < validated.start_date.days
        \/ (r.Date.days = validated.start_date.days
            /\ r.Date.secs <= validated.start_date.secs))

WindowOf(records, validated) ==
    LET Keep(r) == InWindow(r, validated) IN SelectSeq(records, Keep)

OlderThan(a, b) == a.days < b.days \/ (a.days = b.days /\ a.secs < b.secs)

\* a fetched page on which the walk stops
StopsOn(rows, validated) ==
    LET page_data == RecordsOf(rows) IN
    \/ Len(page_data) = 0
    \/ OlderThan(page_data[Len(page_data)].Date, validated.end_date)

FetchedRecords == [i \in 1..Len(fetchLog) |-> RecordsOf(fetchLog[i].body)]
AllAnswered == \A i \in 1..Len(fetchLog) : fetchLog[i].outcome = "ok"

\* C1: scrap_data requests pages 1, 2, 3, ... in order, stops on the first
\* page that has no records or whose last record is strictly older than
\* end_date, requests nothing after it, and returns the records of the pages
\* it fetched, in page and row order.
C1_WalkStopsAtFirstStopPage ==
    /\ \A i \in 1..Len(fetchLog) : fetchLog[i].page = i
    /\ (pc = "scrap" =>
          /\ page = Len(fetchLog) + 1
          /\ \A i \in 1..Len(fetchLog) :
                 /\ PageWellFormed(fetchLog[i].body)
                 /\ ~StopsOn(fetchLog[i].body, validated_data[1]))
    /\ (pc \in {"return", "filter", "done"} =>
          /\ Len(fetchLog) >= 1
          /\ \A i \in 1..Len(fetchLog) :
                 /\ PageWellFormed(fetchLog[i].body)
                 /\ (StopsOn(fetchLog[i].body, validated_data[1]) <=> i = Len(fetchLog))
          /\ error = "")
    /\ (pc \in {"filter", "done"} =>
          scraped_data = <<Flatten(FetchedRecords)>>)

\* a finished walk over two pages with records, stopped by the date of the
\* last record of page 2
C1_Witness ==
    /\ pc = "done"
    /\ Len(fetchLog) = 2
    /\ AllAnswered
    /\ Len(fetchLog[1].body) = 2
    /\ Len(fetchLog[2].body) = 2
    /\ Len(scraped_data[1]) = 4

\* C2: filter_scraped_data returns exactly the records with
\* end_date <= received_at <= start_date, in input order, and leaves its
\* input as it was; an empty input gives an empty output.
C2_FilterIsWindowSubsequence ==
    [][pc = "filter" =>
          /\ scraped_data' = scraped_data
          /\ validated_data' = validated_data
          /\ filtered_data' = <<WindowOf(scraped_data[1], validated_data[1])>>]_vars

\* a filtered result that kept a record dated exactly start_date and dropped
\* a later one
C2_Witness ==
    /\ pc = "done"
    /\ Len(scraped_data[1]) >= 2
    /\ filtered_data[1] # <<>>
    /\ Len(filtered_data[1]) < Len(scraped_data[1])
    /\ \E i \in 1..Len(filtered_data[1]) :
           filtered_data[1][i].Date = validated_data[1].start_date
    /\ \E i \in 1..Len(scraped_data[1]) :
           OlderThan(validated_data[1].start_date, scraped_data[1][i].Date)

\* C4: a request that ends in a non-success response or a timeout makes the
\* run fail with FetchError: nothing is returned and nothing more is fetched.
C4_FetchFailureIsFatal ==
    (\E i \in 1..Len(fetchLog) : fetchLog[i].outcome # "ok") =>
        /\ pc = "failed"
        /\ error = "FetchError"
        /\ scraped_data = <<>>
        /\ fetchLog[Len(fetchLog)].outcome # "ok"

FetchedMalformed ==
    \E i \in 1..Len(fetchLog) :
        /\ fetchLog[i].outcome = "ok"
        /\ ~PageWellFormed(fetchLog[i].body)

RECURSIVE BeforeFirstEmpty(_)
BeforeFirstEmpty(pages) ==
    IF pages = <<>> \/ Head(pages) = <<>> THEN <<>>
    ELSE <<Head(pages)>> \o BeforeFirstEmpty(Tail(pages))

ListingRecords ==
    LET pages == BeforeFirstEmpty(upstream) IN
    Flatten([i \in 1..Len(pages) |-> RecordsOf(pages[i])])

ListingWellFormed ==
    LET pages == BeforeFirstEmpty(upstream) IN
    \A i \in 1..Len(pages) : PageWellFormed(pages[i])

\* received-at never increases from one record of the listing to the next
ListingNewestFirst ==
    LET records == ListingRecords IN
    \A i \in 1..(Len(records) - 1) :
        ~OlderThan(records[i].Date, records[i + 1].Date)

\* C10: over a listing sorted newest first, the filtered result of a run
\* whose requests were all answered holds every in-window record of the
\* pages before the first empty page, as often and in the same order.
C10_NoInWindowRecordLost ==
    (pc = "done" /\ AllAnswered /\ ListingWellFormed /\ ListingNewestFirst) =>
        filtered_data = <<WindowOf(ListingRecords, validated_data[1])>>

\* a sorted listing on which the walk stopped before a page that still has
\* records, with in-window records kept
C10_Witness ==
    /\ pc = "done"
    /\ AllAnswered
    /\ ListingWellFormed
    /\ ListingNewestFirst
    /\ Len(fetchLog) < Len(BeforeFirstEmpty(upstream))
    /\ filtered_data[1] # <<>>

\* C3: in the scenario the walker fetches exactly 2 pages and the filter keeps
\* every record whose calendar date is 2024-03-01 .. 2024-03-10 and drops
\* the others.
C3_ScenarioKeepsWholeDays ==
    pc = "done" =>
        /\ Len(fetchLog) = 2
        /\ LET OnDays(r) == r.Date.days \in Ordinal(2024, 3, 1)..Ordinal(2024, 3, 10)
           IN filtered_data = <<SelectSeq(ListingRecords, OnDays)>>

\* the record a row is expected to give
ExpectedRecord(row) ==
    [Date |-> formatted_datetime(row.cell_1.ts).val[1],
     Id |-> IF row.cell_2a.present THEN <<"SF1001">> ELSE <<>>,
     CustomerName |-> IF row.cell_3.present THEN <<"Rahim">> ELSE <<>>,
     Payment |-> IF row.cell_4.present THEN <<"500">> ELSE <<>>,
     Charge |-> IF row.cell_5.present THEN <<"60">> ELSE <<>>,
     Status |-> IF row.cell_6label.present THEN <<"Delivered">> ELSE <<>>,
     Details |-> IF row.cell_7a.present /\ row.cell_7a.hasHref
                 THEN <<"/c/1001">> ELSE <<>>]

\* C9: a page whose rows all have a well-formed timestamp parses to one
\* record per row, in row order; a missing optional element gives the empty
\* string in its field only, and the other rows are unaffected.
C9_OptionalCellsDegradeToEmpty ==
    (pc = "parsed" /\ PageWellFormed(html)) =>
        /\ parsed[1].ok
        /\ Len(parsed[1].val[1]) = Len(html)
        /\ \A i \in 1..Len(html) :
               /\ parsed[1].val[1][i] = ExpectedRecord(html[i])
               /\ <<parsed[1].val[1][i]>> = RecordsOf(<<html[i]>>)

\* a parsed page whose last row lacks the customer-name cell only, after a
\* complete row
C9_Witness ==
    /\ pc = "parsed"
    /\ Len(html) = MaxRows
    /\ PageWellFormed(html)
    /\ html[1] = FullRow(TsA)
    /\ ~html[Len(html)].cell_3.present
    /\ html[Len(html)].cell_4.present
    /\ parsed[1].ok
    /\ parsed[1].val[1][Len(html)].CustomerName = <<>>
    /\ parsed[1].val[1][Len(html)].Payment = <<"500">>
    /\ parsed[1].val[1][1].CustomerName = <<"Rahim">>

(***************************************************************************)
(* Claims about request validation (checked under SpecValidate).           *)
(***************************************************************************)
CanonicalLabels == {Status[m] : m \in DOMAIN Status}

DateInputValid(t) == ~DateTruthy(t) \/ StrptimeDate(t).ok

OtherInputsValid(req) ==
    /\ DateInputValid(req.start_date)
    /\ DateInputValid(req.end_date)
    /\ (~Truthy(req.status) \/ req.status \in CanonicalLabels)

CachedCredential == loaded # <<>> /\ loaded[1].cookie # None

\* C6: with no credential supplied, validate_request fails with
\* ValidationError when there is no cache (or it holds no credential) and
\* succeeds with the cached credential when there is one and the other inputs
\* are valid; a supplied non-empty credential is the one used.
C6_CredentialFallback ==
    lastReq # <<>> =>
        LET req == lastReq[1]
            res == result[1]
        IN
        /\ (~Truthy(req.cookie) /\ ~CachedCredential)
              => (~res.ok /\ res.err = "ValidationError")
        /\ (~Truthy(req.cookie) /\ CachedCredential /\ OtherInputsValid(req))
              => (res.ok /\ res.val[1].cookie = loaded[1].cookie)
        /\ (Truthy(req.cookie) /\ OtherInputsValid(req)) => res.ok
        /\ (Truthy(req.cookie) /\ res.ok) => res.val[1].cookie = req.cookie

\* a call without credential that reused a cached credential different from
\* nothing, and a cache was present
C6_Witness ==
    /\ lastReq # <<>>
    /\ lastReq[1].cookie = ""
    /\ CachedCredential
    /\ result[1].ok
    /\ result[1].val[1].cookie = loaded[1].cookie

\* C7: the cache file holds exactly the descriptor returned by the most
\* recent successful validate_request call (defaulted and cache-supplied
\* values included) and is absent while no call has succeeded; a failed call
\* leaves it as it was; each call reads the file once, before any write.
C7_CacheIsLastDescriptor ==
    /\ cache = lastSuccess
    /\ (lastReq = <<>> => cache = <<>>)
    /\ (lastReq # <<>> =>
          LET res == result[1] IN
          /\ (res.ok => cache = res.val /\ cacheOps = <<"load", "dump">>)
          /\ (~res.ok => cache = loaded /\ cacheOps = <<"load">>
                          /\ res.err = "ValidationError")
          /\ cacheOps[1] = "load"
          /\ \A i \in 2..Len(cacheOps) : cacheOps[i] # "load")

\* a successful call whose credential came from the previous cache and whose
\* dates and status were all defaulted, now stored in the cache
C7_Witness ==
    /\ lastReq # <<>>
    /\ lastReq[1].cookie = None
    /\ ~DateTruthy(lastReq[1].start_date)
    /\ ~DateTruthy(lastReq[1].end_date)
    /\ ~Truthy(lastReq[1].status)
    /\ loaded # <<>>
    /\ loaded[1].status # "ALL"
    /\ result[1].ok
    /\ cache = <<[cookie |-> loaded[1].cookie,
                  start_date |-> result[1].val[1].start_date,
                  end_date |-> MinusDays(result[1].val[1].start_date, 7),
                  status |-> "ALL"]>>

\* C8: a supplied status that is not exactly a canonical label always fails
\* with ValidationError; only an absent status becomes ALL; a canonical label
\* becomes the member that carries it.
C8_StatusValidation ==
    lastReq # <<>> =>
        LET req == lastReq[1]
            res == result[1]
        IN
        /\ (Truthy(req.status) /\ req.status \notin CanonicalLabels)
              => (~res.ok /\ res.err = "ValidationError")
        /\ (res.ok /\ ~Truthy(req.status)) => res.val[1].status = "ALL"
        /\ (res.ok /\ Truthy(req.status))
              => Status[res.val[1].status] = req.status
        /\ (res.ok /\ res.val[1].status = "ALL")
              => (~Truthy(req.status) \/ req.status = Status["ALL"])

\* a call that failed only because of its status: the member name of a
\* category, not its label
C8_Witness ==
    /\ lastReq # <<>>
    /\ lastReq[1].status = "DELEVERED"
    /\ Truthy(lastReq[1].cookie)
    /\ DateInputValid(lastReq[1].start_date)
    /\ DateInputValid(lastReq[1].end_date)
    /\ ~result[1].ok
    /\ result[1].err = "ValidationError"

====
